---------------------------- MODULE Spec2Model ----------------------------
(***************************************************************************)
(* A model of the Qubes application menu (qubes_menu).                     *)
(*                                                                         *)
(*   utils.py    parse_search, text_search, highlight_words and load_icon, *)
(*               as pure operators.  A Python str is a TLA+ sequence       *)
(*               of one-character strings; Python indices are 0-based and  *)
(*               are kept 0-based in intervals, so text[a:b] is            *)
(*               SubSeq(text, a+1, b).                                     *)
(*   appmenu.py  the AppMenu application object as a state machine: one    *)
(*               action per handler (do_command_line with the activation   *)
(*               it triggers, hide_menu, _key_press, _focus_out,           *)
(*               _update_settings, ...), and main as a process.            *)
(*                                                                         *)
(* Every function has a specification of its own (SpecParse, SpecRank,     *)
(* SpecMerge, SpecHighlight, SpecIcon, SpecMain) whose Init draws the      *)
(* inputs; Spec is the application.  SpecWindow, SpecSettings and          *)
(* SpecEvents are the application with the window alone, with any string   *)
(* as a feature value, and with a longer event feed.                       *)
(***************************************************************************)
EXTENDS Integers, Sequences, FiniteSets

VARIABLES
    pc,                \* position within the function applied, or "app"
    \* ---- utils.parse_search
    search_text,       \* parse_search's argument
    search_words,      \* parse_search's return value
    \* ---- utils.text_search
    search_word,       \* text_search's first argument
    text_words,        \* text_search's second argument
    rank,              \* text_search's return value, doubled (see RANK_*)
    \* ---- utils.highlight_words, for one label
    text,              \* label.get_text()
    hl_words,          \* the search_words argument of highlight_words
    found_intervals,   \* found_intervals (utils.py:111-115, sorted at 120)
    result_intervals,  \* result_intervals (utils.py:121-128)
    markup,            \* the string handed to label.set_markup
    \* ---- appmenu.AppMenu
    primary,               \* self.primary
    keep_visible,          \* self.keep_visible
    initial_page,          \* self.initial_page
    sort_running,          \* self.sort_running
    start_in_background,   \* self.start_in_background
    main_window,           \* self.main_window: None or the window built
    main_notebook,         \* self.main_notebook: None or the notebook built
    desktop_file_manager,  \* self.desktop_file_manager
    vm_manager,            \* self.vm_manager
    handlers,              \* self.handlers: page name -> page handler
    tasks,                 \* self.tasks
    visible,               \* main_window.is_visible()
    keep_above,            \* the window's keep-above hint
    current_page,          \* main_notebook.get_current_page()
    features,              \* the features of qapp.domains[qapp.local_name]
    dispatcher_handlers,   \* event name -> number of handlers added for it
    events,                \* the events the dispatcher has still to deliver
    OPEN_MENUS,            \* SelfAwareMenu.OPEN_MENUS
    ran,                   \* how often each part of the setup has run
    \* ---- utils.load_icon
    icon_call,         \* one call of load_icon: arguments, what the name
                       \* resolves to, and the outcome
    \* ---- appmenu.main
    main_run           \* one run of main: position, objects created, exit

utilVars == <<search_text, search_words, search_word, text_words, rank,
              text, hl_words, found_intervals, result_intervals, markup>>

appVars == <<primary, keep_visible, initial_page, sort_running,
             start_in_background, main_window, main_notebook,
             desktop_file_manager, vm_manager, handlers, tasks, visible,
             keep_above, current_page, features, dispatcher_handlers, events,
             OPEN_MENUS, ran>>

procVars == <<icon_call, main_run>>

vars == <<pc, utilVars, appVars, procVars>>

-----------------------------------------------------------------------------
(* Bounds of the model.                                                    *)

MaxTextLen == 4        \* longest search text given to parse_search
MaxWordLen == 3        \* longest candidate word given to text_search
MaxQueryLen == 2       \* longest query word given to text_search
MaxCandidates == 2     \* most candidate words given to text_search
MaxPos == 4            \* intervals lie within 0..MaxPos
MaxIntervals == 3      \* most found intervals given to the merge
MaxLabelLen == 4       \* longest label text given to highlight_words
MaxHlWordLen == 2      \* longest search word given to highlight_words
MaxHlWords == 2        \* most search words given to highlight_words
MaxPage == 2           \* the notebook's pages are 0..MaxPage
MaxEvents == 1         \* most events waiting in the dispatcher
MaxOpenMenus == 1      \* most right-click menus open at a time
MaxValueLen == 2       \* longest initial-page feature value, when any
                       \* string is a value
MaxPending == 2        \* most events waiting, when only settings change
MaxStatus == 6         \* app.run returns a status in 0..MaxStatus

\* The sequences over S of length at most n.
SeqsUpTo(S, n) == UNION {[1..k -> S] : k \in 0..n}

Max(a, b) == IF a >= b THEN a ELSE b

-----------------------------------------------------------------------------
(* Python str operations used by utils.py.                                 *)

\* str.lower() on the characters the model draws.
LowerChar(c) ==
    CASE c = "A" -> "a"
      [] c = "B" -> "b"
      [] OTHER -> c

Lower(s) == [i \in 1..Len(s) |-> LowerChar(s[i])]

\* str.replace(old, new) for one-character old and new.
Replace(s, old, new) == [i \in 1..Len(s) |-> IF s[i] = old THEN new ELSE s[i]]

\* str.split(sep) for a one-character sep: the pieces between the separators,
\* empty pieces included; "".split(' ') is [''].
RECURSIVE SplitFrom(_, _, _)
SplitFrom(s, sep, piece) ==
    IF s = <<>> THEN <<piece>>
    ELSE IF Head(s) = sep
         THEN <<piece>> \o SplitFrom(Tail(s), sep, <<>>)
         ELSE SplitFrom(Tail(s), sep, Append(piece, Head(s)))

Split(s, sep) == SplitFrom(s, sep, <<>>)

\* str.startswith(prefix)
StartsWith(s, prefix) ==
    /\ Len(prefix) <= Len(s)
    /\ SubSeq(s, 1, Len(prefix)) = prefix

\* The index (0-based) at which sub occurs in s from position i on, or -1:
\* str.find(sub) is FindFrom(s, sub, 0).
RECURSIVE FindFrom(_, _, _)
FindFrom(s, sub, i) ==
    IF i + Len(sub) > Len(s) THEN -1
    ELSE IF SubSeq(s, i + 1, i + Len(sub)) = sub THEN i
    ELSE FindFrom(s, sub, i + 1)

Find(s, sub) == FindFrom(s, sub, 0)

\* sub in s
Contains(s, sub) == Find(s, sub) >= 0

-----------------------------------------------------------------------------
(* utils.parse_search                                                      *)

DropEmpty_keepall(ws) == ws

\* [w for w in search_words if w]
DropEmpty(ws) == SelectSeq(ws, LAMBDA w : w # <<>>)

parse_search_no_underscore(t) ==
    DropEmpty(Split(Replace(Lower(t), "-", " "), " "))

\* search_text.lower().replace('-', ' ').replace('_', ' ').split(' '), then
\* the non-empty pieces.
parse_search(t) ==
    DropEmpty(Split(Replace(Replace(Lower(t), "-", " "), "_", " "), " "))

-----------------------------------------------------------------------------
(* utils.text_search.  The ranks 0, 0.5 and 1 are kept doubled, as the     *)
(* integers 0, 1 and 2.                                                    *)

RANK_NONE == 0
RANK_SUBSTRING == 1
RANK_PREFIX == 2

RECURSIVE ScanWords(_, _)
ScanWords(w, ws) ==
    IF ws = <<>> THEN RANK_NONE
    ELSE IF StartsWith(Head(ws), w) THEN RANK_PREFIX
    ELSE IF Contains(Head(ws), w) THEN RANK_SUBSTRING
    ELSE ScanWords(w, Tail(ws))

text_search(w, ws) == IF w = <<>> THEN RANK_NONE ELSE ScanWords(w, ws)

-----------------------------------------------------------------------------
(* utils.highlight_words, for one label of a window whose application is   *)
(* found.  An interval is the Python tuple (start, end), 0-based and       *)
(* half-open.                                                              *)

\* window.get_application().highlight_tag (appmenu.py:347-349 builds it: a
\* span element with the colours of the theme, here without its attributes)
\* and the literal '</span>'.
HlTag == <<"<", "s", "p", "a", "n", ">">>
CloseTag == <<"<", "/", "s", "p", "a", "n", ">">>

\* for word in search_words: start = search_text.find(word);
\*     if start >= 0: found_intervals.append((start, start + len(word)))
RECURSIVE FindWords(_, _)
FindWords(st, ws) ==
    IF ws = <<>> THEN <<>>
    ELSE LET start == Find(st, Head(ws))
         IN  (IF start >= 0 THEN << <<start, start + Len(Head(ws))>> >>
              ELSE <<>>) \o FindWords(st, Tail(ws))

find_intervals(t, ws) == FindWords(Lower(t), ws)

\* list.sort(key=lambda x: x[0]): a stable sort on the start alone.
RECURSIVE InsertByStart(_, _)
InsertByStart(x, s) ==
    IF s = <<>> THEN <<x>>
    ELSE IF s[1][1] <= x[1] THEN <<s[1]>> \o InsertByStart(x, Tail(s))
    ELSE <<x>> \o s

RECURSIVE StableSort(_)
StableSort(s) ==
    IF s = <<>> THEN <<>>
    ELSE InsertByStart(s[Len(s)], StableSort(SubSeq(s, 1, Len(s) - 1)))

SortByStart_none(s) == s

SortByStart(s) == StableSort(s)

MergeOne_strict(res, interval) ==
    LET last == res[Len(res)]
    IN  IF interval[1] < last[2]
        THEN [res EXCEPT ![Len(res)] = <<last[1], Max(last[2], interval[2])>>]
        ELSE Append(res, interval)

MergeOne_nomax(res, interval) ==
    LET last == res[Len(res)]
    IN  IF interval[1] <= last[2]
        THEN [res EXCEPT ![Len(res)] = <<last[1], interval[2]>>]
        ELSE Append(res, interval)

\* The body of the loop at utils.py:122-128.
MergeOne(res, interval) ==
    LET last == res[Len(res)]
    IN  IF interval[1] <= last[2]
        THEN [res EXCEPT ![Len(res)] = <<last[1], Max(last[2], interval[2])>>]
        ELSE Append(res, interval)

RECURSIVE MergeFold(_, _)
MergeFold(res, rest) ==
    IF rest = <<>> THEN res
    ELSE MergeFold(MergeOne(res, Head(rest)), Tail(rest))

\* result_intervals from the sorted found_intervals (utils.py:121-128).  The
\* code reaches this only with a non-empty list: utils.py:117-118 skips the
\* label otherwise.
merge_intervals(sorted) == MergeFold(<<sorted[1]>>, Tail(sorted))

\* text[:start] + hl_tag + text[start:end] + '</span>' + text[end:]
WrapInterval(t, interval) ==
    SubSeq(t, 1, interval[1]) \o HlTag
        \o SubSeq(t, interval[1] + 1, interval[2]) \o CloseTag
        \o SubSeq(t, interval[2] + 1, Len(t))

RECURSIVE WrapEach(_, _)
WrapEach(t, intervals) ==
    IF intervals = <<>> THEN t
    ELSE WrapEach(WrapInterval(t, Head(intervals)), Tail(intervals))

Reversed(s) == [i \in 1..Len(s) |-> s[Len(s) + 1 - i]]

insert_markup_forward(t, intervals) == WrapEach(t, intervals)

\* for interval in reversed(result_intervals): text = ...
insert_markup(t, intervals) == WrapEach(t, Reversed(intervals))

-----------------------------------------------------------------------------
(* appmenu.AppMenu: values.                                                *)

\* Python's None for an object attribute; an object built by the n-th run of
\* perform_setup is n.
None == 0

\* qapp.local_name and another qube.
LocalName == "dom0"
OtherName == "work"
VMNames == {LocalName, OtherName}

\* constants.INITIAL_PAGE_FEATURE and constants.SORT_RUNNING_FEATURE
INITIAL_PAGE_FEATURE == "menu-initial-page"
SORT_RUNNING_FEATURE == "menu-sort-running"
FeatureNames == {INITIAL_PAGE_FEATURE, SORT_RUNNING_FEATURE}

\* The values the features are given: feature values are strings.
InitialPageValues == {<<"2">>, <<"x">>, <<>>}
SortRunningValues == {<<"0">>, <<>>}
ValuesOf(f) == IF f = INITIAL_PAGE_FEATURE THEN InitialPageValues
               ELSE SortRunningValues

\* The feature stores: a dict from the features that are set to their values.
FeatureStores ==
    {[f \in {INITIAL_PAGE_FEATURE} |-> v] : v \in InitialPageValues}
    \cup {[f \in {SORT_RUNNING_FEATURE} |-> v] : v \in SortRunningValues}
    \cup {[f \in FeatureNames |-> IF f = INITIAL_PAGE_FEATURE THEN v ELSE w] :
             v \in InitialPageValues, w \in SortRunningValues}
    \cup {[f \in {} |-> <<>>]}

\* The keys of self.handlers (appmenu.py:297-307); the search page is the
\* notebook's page 0 (appmenu.py:382-391).
PageNames == {"search_page", "app_page", "favorites_page", "settings_page"}
Pages == 0..MaxPage
SEARCH_PAGE_INDEX == 0

\* The events perform_setup adds handlers for (appmenu.py:323-329).
SetEvent(f) == <<"domain-feature-set", f>>
DeleteEvent(f) == <<"domain-feature-delete", f>>
SettingsEvents == {SetEvent(f) : f \in FeatureNames}
                      \cup {DeleteEvent(f) : f \in FeatureNames}

\* The option dicts do_command_line unpacks: the flags given, with the page
\* option's integer.
OptionDicts ==
    UNION {
        {[k \in ks |-> IF k = "page" THEN n ELSE TRUE] : n \in Pages}
        : ks \in SUBSET {"keep-visible", "page", "background"}}

\* The keys _key_press and _key_pressed tell apart: Escape, space, and a
\* printable character (its unicode is above 32).
Keys == {"Escape", "space", "char"}

-----------------------------------------------------------------------------
(* Python's int(str) on the characters the model draws: optional           *)
(* whitespace around an optional sign and decimal digits, in which single  *)
(* underscores may separate digits.  [ok |-> FALSE] is ValueError.         *)

DigitChars == {"0", "1", "2", "3", "4", "5", "6", "7", "8", "9"}
WhiteChars == {" ", "\t", "\n"}

DigitValue(c) ==
    CASE c = "0" -> 0 [] c = "1" -> 1 [] c = "2" -> 2 [] c = "3" -> 3
      [] c = "4" -> 4 [] c = "5" -> 5 [] c = "6" -> 6 [] c = "7" -> 7
      [] c = "8" -> 8 [] c = "9" -> 9

RECURSIVE LStrip(_)
LStrip(s) == IF s # <<>> /\ Head(s) \in WhiteChars THEN LStrip(Tail(s)) ELSE s

RECURSIVE RStrip(_)
RStrip(s) ==
    IF s # <<>> /\ s[Len(s)] \in WhiteChars
    THEN RStrip(SubSeq(s, 1, Len(s) - 1)) ELSE s

RECURSIVE DigitsValue(_, _)
DigitsValue(s, acc) ==
    IF s = <<>> THEN acc
    ELSE IF Head(s) = "_" THEN DigitsValue(Tail(s), acc)
    ELSE DigitsValue(Tail(s), 10 * acc + DigitValue(Head(s)))

PyInt(s) ==
    LET t == RStrip(LStrip(s))
        signed == t # <<>> /\ t[1] \in {"+", "-"}
        body == IF signed THEN Tail(t) ELSE t
        wellformed ==
            /\ body # <<>>
            /\ \A i \in 1..Len(body) : body[i] \in DigitChars \cup {"_"}
            /\ body[1] # "_" /\ body[Len(body)] # "_"
            /\ \A i \in 1..(Len(body) - 1) :
                   ~(body[i] = "_" /\ body[i + 1] = "_")
    IN  IF ~wellformed THEN [ok |-> FALSE, value |-> 0]
        ELSE [ok |-> TRUE,
              value |-> IF signed /\ t[1] = "-" THEN 0 - DigitsValue(body, 0)
                        ELSE DigitsValue(body, 0)]

-----------------------------------------------------------------------------
(* AppMenu.load_settings                                                   *)

DEFAULT_INITIAL_PAGE == 1

load_initial_page_zero(feats) ==
    IF INITIAL_PAGE_FEATURE \in DOMAIN feats
    THEN PyInt(feats[INITIAL_PAGE_FEATURE]).value
    ELSE DEFAULT_INITIAL_PAGE

\* try: int(features.get(INITIAL_PAGE_FEATURE, 1)) except ValueError: 1
load_initial_page(feats) ==
    IF INITIAL_PAGE_FEATURE \in DOMAIN feats
    THEN LET parsed == PyInt(feats[INITIAL_PAGE_FEATURE])
         IN  IF parsed.ok THEN parsed.value ELSE DEFAULT_INITIAL_PAGE
    ELSE DEFAULT_INITIAL_PAGE

load_sort_running_parsed(feats) ==
    IF SORT_RUNNING_FEATURE \in DOMAIN feats
    THEN feats[SORT_RUNNING_FEATURE]
             \notin {<<>>, <<"0">>, <<"F", "a", "l", "s", "e">>}
    ELSE FALSE

\* bool(features.get(SORT_RUNNING_FEATURE, False))
load_sort_running(feats) ==
    IF SORT_RUNNING_FEATURE \in DOMAIN feats
    THEN feats[SORT_RUNNING_FEATURE] # <<>>
    ELSE FALSE

set_sorting_order_skipped(hs, order) == hs

\* for handler in self.handlers.values(): handler.set_sorting_order(...)
set_sorting_order(hs, order) ==
    [n \in DOMAIN hs |-> [hs[n] EXCEPT !.sorting_order = order]]

\* page.initialize_page() for the handlers named.
initialize_pages(hs, names) ==
    [n \in DOMAIN hs |->
        IF n \in names THEN [hs[n] EXCEPT !.initial = TRUE] ELSE hs[n]]

\* main_notebook.set_current_page(page_num) on a notebook that shows page
\* cur and has the pages 0..MaxPage: a negative number selects the last
\* page, a number past the last page changes nothing.
set_current_page(cur, page_num) ==
    IF page_num < 0 THEN MaxPage
    ELSE IF page_num > MaxPage THEN cur
    ELSE page_num

\* main_notebook.set_current_page(page) with the switch-page signal it emits
\* when the page changes: _handle_page_switch initialises the handler of the
\* page switched to (of the pages, the model follows the search page).
switch_page(hs, from, to) ==
    IF from # to /\ to = SEARCH_PAGE_INDEX
    THEN initialize_pages(hs, {"search_page"} \cap DOMAIN hs)
    ELSE hs

-----------------------------------------------------------------------------
(* AppMenu: the state after construction (appmenu.py:74-107), with any     *)
(* feature store.                                                          *)

NoHandlers == [n \in {} |-> [id |-> None, sorting_order |-> FALSE,
                             initial |-> TRUE]]

AppConstructed ==
    /\ primary = FALSE
    /\ keep_visible = FALSE
    /\ initial_page = DEFAULT_INITIAL_PAGE
    /\ sort_running = FALSE
    /\ start_in_background = FALSE
    /\ main_window = None
    /\ main_notebook = None
    /\ desktop_file_manager = None
    /\ vm_manager = None
    /\ handlers = NoHandlers
    /\ tasks = <<>>
    /\ visible = FALSE
    /\ keep_above = FALSE
    /\ current_page = 0
    /\ dispatcher_handlers = [e \in SettingsEvents |-> 0]
    /\ events = <<>>
    /\ OPEN_MENUS = 0
    /\ ran = [perform_setup |-> 0, initialize_state |-> 0,
              listen_for_events |-> 0]

-----------------------------------------------------------------------------
(* AppMenu.do_command_line and the activation it triggers.                 *)

NeedsSetup_always == TRUE

\* if not self.primary (appmenu.py:193)
NeedsSetup == ~primary

\* The first activation (appmenu.py:194-220): perform_setup, which ends with
\* load_settings and the dispatcher's handlers, then the window is shown
\* unless started in the background, initialize_state, and the listener task.
\* ip and bg are initial_page and start_in_background as do_command_line
\* left them; load_settings assigns initial_page anew (appmenu.py:359), so
\* ip is read by nothing here.
ShowAtStart_always(bg) == TRUE

\* if not self.start_in_background (appmenu.py:198)
ShowAtStart(bg) == ~bg

FirstActivation(ip, bg) ==
    LET gen == ran.perform_setup + 1
        loaded_page == load_initial_page(features)
        loaded_sort == load_sort_running(features)
    IN  /\ main_window' = gen
        /\ main_notebook' = gen
        /\ desktop_file_manager' = gen
        /\ vm_manager' = gen
        /\ initial_page' = loaded_page
        /\ sort_running' = loaded_sort
        /\ handlers' = [n \in PageNames |->
                           [id |-> gen, sorting_order |-> loaded_sort,
                            initial |-> TRUE]]
        /\ dispatcher_handlers' =
               [e \in SettingsEvents |-> dispatcher_handlers[e] + 1]
        /\ primary' = TRUE
        /\ visible' = IF ShowAtStart(bg) THEN TRUE ELSE visible
        /\ current_page' = set_current_page(current_page, loaded_page)
        /\ tasks' = <<"listen_for_events">>
        /\ ran' = [perform_setup |-> ran.perform_setup + 1,
                   initialize_state |-> ran.initialize_state + 1,
                   listen_for_events |-> ran.listen_for_events + 1]
        /\ UNCHANGED keep_above

\* A later activation (appmenu.py:221-229).  ip and kv are initial_page and
\* keep_visible as do_command_line left them.
HidesOnActivation_unseen(kv) == ~kv

\* if self.main_window.is_visible() and not self.keep_visible
\* (appmenu.py:226)
HidesOnActivation(kv) == visible /\ ~kv

LaterActivation(ip, kv) ==
    /\ initial_page' = ip
    /\ current_page' = IF main_notebook # None
                       THEN set_current_page(current_page, ip)
                       ELSE current_page
    /\ handlers' = IF main_notebook # None
                   THEN switch_page(handlers, current_page,
                                    set_current_page(current_page, ip))
                   ELSE handlers
    /\ keep_above' = IF main_window # None THEN TRUE ELSE keep_above
    /\ visible' = IF main_window = None THEN visible
                  ELSE IF HidesOnActivation(kv) THEN FALSE
                  ELSE TRUE
    /\ UNCHANGED <<primary, sort_running, main_window, main_notebook,
                   desktop_file_manager, vm_manager, dispatcher_handlers,
                   tasks, ran>>

do_command_line(options) ==
    LET kv == keep_visible \/ "keep-visible" \in DOMAIN options
        ip == IF "page" \in DOMAIN options THEN options["page"]
              ELSE initial_page
        bg == start_in_background \/ "background" \in DOMAIN options
    IN  /\ pc = "app"
        /\ keep_visible' = kv
        /\ start_in_background' = bg
        /\ IF NeedsSetup THEN FirstActivation(ip, bg)
           ELSE LaterActivation(ip, kv)
        /\ UNCHANGED <<pc, utilVars, procVars, features, events,
                       OPEN_MENUS>>

-----------------------------------------------------------------------------
(* AppMenu.hide_menu and the handlers that call it.                        *)

HideAllowed_always == main_window # None

\* if not self.keep_visible and self.main_window (appmenu.py:239)
HideAllowed == ~keep_visible /\ main_window # None

hide_menu_body_noreset ==
    /\ handlers' = handlers
    /\ visible' = IF ~keep_visible /\ main_window # None THEN FALSE
                  ELSE visible

\* The body of hide_menu (appmenu.py:238-240).
hide_menu_body ==
    /\ handlers' = initialize_pages(handlers, {"search_page"})
    /\ visible' = IF HideAllowed THEN FALSE ELSE visible

\* hide_menu as the page handlers call it after an action such as running
\* an application.
hide_menu ==
    /\ pc = "app"
    /\ "search_page" \in DOMAIN handlers
    /\ hide_menu_body
    /\ UNCHANGED <<pc, utilVars, procVars, primary, keep_visible,
                   initial_page,
                   sort_running, start_in_background, main_window,
                   main_notebook, desktop_file_manager, vm_manager, tasks,
                   keep_above, current_page, features, dispatcher_handlers,
                   events, OPEN_MENUS, ran>>

\* A key press on the main window: _key_press (appmenu.py:242-254), and
\* _key_pressed (appmenu.py:378-394) for a printable character, which moves
\* to the search page; the search entry then holds the character, so the
\* search page is no longer in its initial state.
key_press(key) ==
    /\ pc = "app"
    /\ main_window # None
    /\ visible
    /\ CASE key = "Escape" ->
              /\ hide_menu_body
              /\ UNCHANGED current_page
         [] key = "space" ->
              UNCHANGED <<handlers, visible, current_page>>
         [] key = "char" ->
              /\ current_page' = IF main_notebook # None
                                 THEN SEARCH_PAGE_INDEX ELSE current_page
              /\ handlers' = [handlers EXCEPT !["search_page"].initial = FALSE]
              /\ UNCHANGED visible
    /\ UNCHANGED <<pc, utilVars, procVars, primary, keep_visible,
                   initial_page,
                   sort_running, start_in_background, main_window,
                   main_notebook, desktop_file_manager, vm_manager, tasks,
                   keep_above, features, dispatcher_handlers, events,
                   OPEN_MENUS, ran>>

MenusClosed_but_one == OPEN_MENUS <= 1

\* if SelfAwareMenu.OPEN_MENUS <= 0 (appmenu.py:260)
MenusClosed == OPEN_MENUS <= 0

\* _focus_out (appmenu.py:256-261)
focus_out ==
    /\ pc = "app"
    /\ main_window # None
    /\ IF MenusClosed THEN hide_menu_body
       ELSE UNCHANGED <<handlers, visible>>
    /\ UNCHANGED <<pc, utilVars, procVars, primary, keep_visible,
                   initial_page,
                   sort_running, start_in_background, main_window,
                   main_notebook, desktop_file_manager, vm_manager, tasks,
                   keep_above, current_page, features, dispatcher_handlers,
                   events, OPEN_MENUS, ran>>

\* The user selects another tab of the notebook: _handle_page_switch
\* (appmenu.py:396-403).
handle_page_switch(page) ==
    /\ pc = "app"
    /\ main_notebook # None
    /\ visible
    /\ page # current_page
    /\ current_page' = page
    /\ handlers' = switch_page(handlers, current_page, page)
    /\ UNCHANGED <<pc, utilVars, procVars, primary, keep_visible,
                   initial_page,
                   sort_running, start_in_background, main_window,
                   main_notebook, desktop_file_manager, vm_manager, tasks,
                   visible, keep_above, features, dispatcher_handlers,
                   events, OPEN_MENUS, ran>>

\* A right-click menu opens or closes: SelfAwareMenu counts the open ones.
open_menu ==
    /\ pc = "app"
    /\ visible
    /\ OPEN_MENUS < MaxOpenMenus
    /\ OPEN_MENUS' = OPEN_MENUS + 1
    /\ UNCHANGED <<pc, utilVars, procVars, primary, keep_visible,
                   initial_page,
                   sort_running, start_in_background, main_window,
                   main_notebook, desktop_file_manager, vm_manager, handlers,
                   tasks, visible, keep_above, current_page, features,
                   dispatcher_handlers, events, ran>>

close_menu ==
    /\ pc = "app"
    /\ OPEN_MENUS > 0
    /\ OPEN_MENUS' = OPEN_MENUS - 1
    /\ UNCHANGED <<pc, utilVars, procVars, primary, keep_visible,
                   initial_page,
                   sort_running, start_in_background, main_window,
                   main_notebook, desktop_file_manager, vm_manager, handlers,
                   tasks, visible, keep_above, current_page, features,
                   dispatcher_handlers, events, ran>>

-----------------------------------------------------------------------------
(* The feature store and the event feed.                                   *)

\* A feature of a qube is set while the listener task runs: the store of the
\* local qube changes and the dispatcher receives the event.  How many
\* events may wait for delivery is bounded where the action is used.
feature_set(vm, f, v) ==
    /\ pc = "app"
    /\ tasks # <<>>
    /\ features' = IF vm = LocalName
                   THEN [g \in DOMAIN features \cup {f} |->
                            IF g = f THEN v ELSE features[g]]
                   ELSE features
    /\ events' = Append(events, [vm |-> vm, event |-> SetEvent(f)])
    /\ UNCHANGED <<pc, utilVars, procVars, primary, keep_visible,
                   initial_page,
                   sort_running, start_in_background, main_window,
                   main_notebook, desktop_file_manager, vm_manager, handlers,
                   tasks, visible, keep_above, current_page,
                   dispatcher_handlers, OPEN_MENUS, ran>>

feature_delete(vm, f) ==
    /\ pc = "app"
    /\ tasks # <<>>
    /\ vm = LocalName => f \in DOMAIN features
    /\ features' = IF vm = LocalName
                   THEN [g \in DOMAIN features \ {f} |-> features[g]]
                   ELSE features
    /\ events' = Append(events, [vm |-> vm, event |-> DeleteEvent(f)])
    /\ UNCHANGED <<pc, utilVars, procVars, primary, keep_visible,
                   initial_page,
                   sort_running, start_in_background, main_window,
                   main_notebook, desktop_file_manager, vm_manager, handlers,
                   tasks, visible, keep_above, current_page,
                   dispatcher_handlers, OPEN_MENUS, ran>>

IsLocal_any(vm) == TRUE

\* if not str(vm) == self.qapp.local_name: return (appmenu.py:368-369)
IsLocal(vm) == vm = LocalName

\* The dispatcher delivers its oldest event to the handlers added for it:
\* _update_settings (appmenu.py:367-371) and load_settings (351-365).
update_settings ==
    /\ pc = "app"
    /\ events # <<>>
    /\ events' = Tail(events)
    /\ IF dispatcher_handlers[Head(events).event] > 0
          /\ IsLocal(Head(events).vm)
       THEN /\ initial_page' = load_initial_page(features)
            /\ sort_running' = load_sort_running(features)
            /\ handlers' =
                   set_sorting_order(handlers, load_sort_running(features))
       ELSE UNCHANGED <<initial_page, sort_running, handlers>>
    /\ UNCHANGED <<pc, utilVars, procVars, primary, keep_visible,
                   start_in_background, main_window, main_notebook,
                   desktop_file_manager, vm_manager, tasks, visible,
                   keep_above, current_page, features, dispatcher_handlers,
                   OPEN_MENUS, ran>>

-----------------------------------------------------------------------------
(* utils.load_icon                                                         *)

\* Gtk.icon_size_lookup(size): the pixel width of a Gtk.IconSize, given by
\* its number (1 MENU, 2 SMALL_TOOLBAR, 3 LARGE_TOOLBAR, 4 BUTTON, 5 DND,
\* 6 DIALOG).  Icons are square: the height equals the width.
icon_size_lookup(size) ==
    CASE size = 3 -> 24
      [] size = 5 -> 32
      [] size = 6 -> 48
      [] OTHER -> 16

\* width and height as load_icon computes them (utils.py:38-42): looked up
\* when size is truthy, pixel_size otherwise, which may be None.
icon_width(size, pixel_size) ==
    IF size # None THEN icon_size_lookup(size) ELSE pixel_size

\* load_icon (utils.py:43-56).  is_file: GdkPixbuf can load icon_name as an
\* image file; in_theme: the icon theme has an icon called icon_name.  With
\* a width of None each of the three toolkit calls raises TypeError; the
\* first two are caught, the last one is not.
load_icon(is_file, in_theme, size, pixel_size) ==
    LET width == icon_width(size, pixel_size)
    IN  IF width # None /\ is_file
        THEN [kind |-> "file", width |-> width]
        ELSE IF width # None /\ in_theme
        THEN [kind |-> "theme", width |-> width]
        ELSE IF width # None
        THEN [kind |-> "blank", width |-> width]
        ELSE [kind |-> "TypeError", width |-> None]

NoIconCall ==
    [icon_name |-> "", is_file |-> FALSE, in_theme |-> FALSE,
     size |-> None, pixel_size |-> None,
     result |-> [kind |-> "none", width |-> None]]

-----------------------------------------------------------------------------
(* appmenu.main                                                            *)

EXIT_OK == 0
EXIT_EXCEPTION == 1
EXIT_NO_GUI == 6

\* The objects main creates, in the order of appmenu.py:415-417.
MainObjects == <<"qapp", "dispatcher", "app">>

\* The places of main where an exception can be raised, and "none".
MainFailures == {"none", "qapp", "dispatcher", "app", "run"}

main_exit_status_of_run(status) == status

\* sys.exit(main()) (appmenu.py:422): main returns None whatever app.run
\* returned (appmenu.py:418), and sys.exit(None) exits with 0.
main_exit_status(status) == EXIT_OK

\* main has not been called (the functions of utils.py used on their own).
MainNotStarted ==
    [at |-> "not_started", gtk_ok |-> TRUE, fails |-> "none",
     status |-> EXIT_OK, created |-> {}, exit |-> <<>>]

\* main is inside app.run (appmenu.py:418): the application is running.
MainRunning ==
    [at |-> "run", gtk_ok |-> TRUE, fails |-> "none",
     status |-> EXIT_OK, created |-> {"qapp", "dispatcher", "app"},
     exit |-> <<>>]

\* if not Gtk.init_check()[0]: sys.exit(6) (appmenu.py:412-413)
main_init_check ==
    /\ pc = "main"
    /\ main_run.at = "init_check"
    /\ main_run' = IF main_run.gtk_ok
                   THEN [main_run EXCEPT !.at = "create"]
                   ELSE [main_run EXCEPT !.at = "exited",
                                         !.exit = <<EXIT_NO_GUI>>]
    /\ UNCHANGED <<pc, utilVars, appVars, icon_call>>

\* One of the three constructor calls (appmenu.py:415-417); an exception
\* none of the code catches ends the interpreter with exit status 1.
main_create ==
    /\ pc = "main"
    /\ main_run.at = "create"
    /\ LET obj == MainObjects[Cardinality(main_run.created) + 1]
       IN  main_run' =
               IF main_run.fails = obj
               THEN [main_run EXCEPT !.at = "exited",
                                     !.exit = <<EXIT_EXCEPTION>>]
               ELSE [main_run EXCEPT
                        !.created = main_run.created \cup {obj},
                        !.at = IF obj = "app" THEN "run" ELSE "create"]
    /\ UNCHANGED <<pc, utilVars, appVars, icon_call>>

\* app.run(sys.argv) returns main_run.status or raises (appmenu.py:418);
\* then sys.exit(main()) (appmenu.py:422).
main_app_run ==
    /\ pc = "main"
    /\ main_run.at = "run"
    /\ main_run' =
           [main_run EXCEPT
               !.at = "exited",
               !.exit = IF main_run.fails = "run"
                        THEN <<EXIT_EXCEPTION>>
                        ELSE <<main_exit_status(main_run.status)>>]
    /\ UNCHANGED <<pc, utilVars, appVars, icon_call>>

UtilIdle ==
    /\ search_text = <<>>
    /\ search_words = <<>>
    /\ search_word = <<>>
    /\ text_words = <<>>
    /\ rank = RANK_NONE
    /\ text = <<>>
    /\ hl_words = <<>>
    /\ found_intervals = <<>>
    /\ result_intervals = <<>>
    /\ markup = <<>>

Init ==
    /\ pc = "app"
    /\ UtilIdle
    /\ icon_call = NoIconCall
    /\ AppConstructed
    /\ features \in FeatureStores
    /\ main_run = MainRunning

Next ==
    \/ \E options \in OptionDicts : do_command_line(options)
    \/ hide_menu
    \/ \E key \in Keys : key_press(key)
    \/ focus_out
    \/ \E page \in Pages : handle_page_switch(page)
    \/ open_menu
    \/ close_menu
    \/ /\ Len(events) < MaxEvents
       /\ \E vm \in VMNames, f \in FeatureNames :
              \E v \in ValuesOf(f) : feature_set(vm, f, v)
    \/ /\ Len(events) < MaxEvents
       /\ \E vm \in VMNames, f \in FeatureNames : feature_delete(vm, f)
    \/ update_settings

Spec == Init /\ [][Next]_vars

-----------------------------------------------------------------------------
(* The functions of utils.py, each applied to inputs drawn by Init.        *)

AppIdle ==
    /\ AppConstructed
    /\ features = [f \in {} |-> <<>>]
    /\ main_run = MainNotStarted

\* ---- parse_search

ParseChars == {"A", "b", "-", "_", " ", "\t", "\n"}

InitParse ==
    /\ pc = "parse_search"
    /\ search_text \in SeqsUpTo(ParseChars, MaxTextLen)
    /\ search_words = <<>>
    /\ search_word = <<>> /\ text_words = <<>> /\ rank = RANK_NONE
    /\ text = <<>> /\ hl_words = <<>> /\ found_intervals = <<>>
    /\ result_intervals = <<>> /\ markup = <<>>
    /\ AppIdle
    /\ icon_call = NoIconCall

ParseSearch ==
    /\ pc = "parse_search"
    /\ search_words' = parse_search(search_text)
    /\ pc' = "parsed"
    /\ UNCHANGED <<search_text, search_word, text_words, rank, text,
                   hl_words, found_intervals, result_intervals, markup,
                   appVars, procVars>>

NextParse == ParseSearch

SpecParse == InitParse /\ [][NextParse]_vars

\* ---- text_search

RankChars == {"a", "b"}

InitRank ==
    /\ pc = "text_search"
    /\ search_word \in SeqsUpTo(RankChars, MaxQueryLen)
    /\ text_words \in SeqsUpTo(SeqsUpTo(RankChars, MaxWordLen), MaxCandidates)
    /\ rank = RANK_NONE
    /\ search_text = <<>> /\ search_words = <<>>
    /\ text = <<>> /\ hl_words = <<>> /\ found_intervals = <<>>
    /\ result_intervals = <<>> /\ markup = <<>>
    /\ AppIdle
    /\ icon_call = NoIconCall

TextSearch ==
    /\ pc = "text_search"
    /\ rank' = text_search(search_word, text_words)
    /\ pc' = "ranked"
    /\ UNCHANGED <<search_text, search_words, search_word, text_words, text,
                   hl_words, found_intervals, result_intervals, markup,
                   appVars, procVars>>

NextRank == TextSearch

SpecRank == InitRank /\ [][NextRank]_vars

\* ---- highlight_words

\* The intervals within a text of MaxPos characters: a found interval is
\* (start, start + len(word)) for a non-empty word found at start.
Intervals == {iv \in (0..MaxPos) \X (0..MaxPos) : iv[1] < iv[2]}

LabelChars == {"A", "b"}
WordChars == {"a", "b"}

\* The loop at utils.py:112-115; a label in which no word is found is left
\* without highlighting (utils.py:109, 117-118).
HlFind ==
    /\ pc = "highlight_words"
    /\ found_intervals' = find_intervals(text, hl_words)
    /\ markup' = text
    /\ pc' = IF found_intervals' = <<>> THEN "marked" ELSE "found"
    /\ UNCHANGED <<search_text, search_words, search_word, text_words, rank,
                   text, hl_words, result_intervals, appVars, procVars>>

\* found_intervals.sort(key= lambda x: x[0]) (utils.py:120)
HlSort ==
    /\ pc = "found"
    /\ found_intervals' = SortByStart(found_intervals)
    /\ pc' = "sorted"
    /\ UNCHANGED <<search_text, search_words, search_word, text_words, rank,
                   text, hl_words, result_intervals, markup, appVars,
                   procVars>>

\* utils.py:121-128
HlMerge ==
    /\ pc = "sorted"
    /\ result_intervals' = merge_intervals(found_intervals)
    /\ pc' = "merged"
    /\ UNCHANGED <<search_text, search_words, search_word, text_words, rank,
                   text, hl_words, found_intervals, markup, appVars,
                   procVars>>

\* utils.py:130-135
HlMarkup ==
    /\ pc = "merged"
    /\ markup' = insert_markup(text, result_intervals)
    /\ pc' = "marked"
    /\ UNCHANGED <<search_text, search_words, search_word, text_words, rank,
                   text, hl_words, found_intervals, result_intervals,
                   appVars, procVars>>

\* Every list of found intervals, as the loop at utils.py:112-115 leaves it;
\* with no interval found the label is skipped (utils.py:117-118).
InitMerge ==
    /\ found_intervals \in SeqsUpTo(Intervals, MaxIntervals)
    /\ pc = IF found_intervals = <<>> THEN "marked" ELSE "found"
    /\ result_intervals = <<>>
    /\ text = <<>> /\ hl_words = <<>> /\ markup = <<>>
    /\ search_text = <<>> /\ search_words = <<>>
    /\ search_word = <<>> /\ text_words = <<>> /\ rank = RANK_NONE
    /\ AppIdle
    /\ icon_call = NoIconCall

NextMerge == HlSort \/ HlMerge

SpecMerge == InitMerge /\ [][NextMerge]_vars

\* Every label text and list of search words.
InitHighlight ==
    /\ pc = "highlight_words"
    /\ text \in SeqsUpTo(LabelChars, MaxLabelLen)
    /\ hl_words \in SeqsUpTo(SeqsUpTo(WordChars, MaxHlWordLen) \ {<<>>},
                             MaxHlWords)
    /\ found_intervals = <<>> /\ result_intervals = <<>> /\ markup = <<>>
    /\ search_text = <<>> /\ search_words = <<>>
    /\ search_word = <<>> /\ text_words = <<>> /\ rank = RANK_NONE
    /\ AppIdle
    /\ icon_call = NoIconCall

NextHighlight == HlFind \/ HlSort \/ HlMerge \/ HlMarkup

SpecHighlight == InitHighlight /\ [][NextHighlight]_vars

\* ---- load_icon

IconNames == {"firefox", "/usr/share/icons/firefox.png"}

\* The size argument: None, MENU, LARGE_TOOLBAR (the default) or DND.
IconSizes == {None, 1, 3, 5}

\* The pixel_size argument: None (the default) or a number of pixels.
PixelSizes == {None, 16, 32}

InitIcon ==
    /\ pc = "load_icon"
    /\ UtilIdle
    /\ AppIdle
    /\ icon_call \in [icon_name : IconNames, is_file : BOOLEAN,
                      in_theme : BOOLEAN, size : IconSizes,
                      pixel_size : PixelSizes,
                      result : {NoIconCall.result}]

LoadIcon ==
    /\ pc = "load_icon"
    /\ icon_call' =
           [icon_call EXCEPT
               !.result = load_icon(icon_call.is_file, icon_call.in_theme,
                                    icon_call.size, icon_call.pixel_size)]
    /\ pc' = "loaded"
    /\ UNCHANGED <<utilVars, appVars, main_run>>

NextIcon == LoadIcon

SpecIcon == InitIcon /\ [][NextIcon]_vars

\* ---- main

InitMain ==
    /\ pc = "main"
    /\ UtilIdle
    /\ AppConstructed
    /\ features = [f \in {} |-> <<>>]
    /\ icon_call = NoIconCall
    /\ main_run \in [at : {"init_check"}, gtk_ok : BOOLEAN,
                     fails : MainFailures, status : 0..MaxStatus,
                     created : {{}}, exit : {<<>>}]

NextMain == main_init_check \/ main_create \/ main_app_run

SpecMain == InitMain /\ [][NextMain]_vars

-----------------------------------------------------------------------------
(* The window: the menu is activated, used and hidden while the features   *)
(* of the qubes stay as they are.                                          *)

NextWindow ==
    \/ \E options \in OptionDicts : do_command_line(options)
    \/ hide_menu
    \/ \E key \in Keys : key_press(key)
    \/ focus_out
    \/ \E page \in Pages : handle_page_switch(page)
    \/ open_menu
    \/ close_menu

SpecWindow == Init /\ [][NextWindow]_vars

-----------------------------------------------------------------------------
(* load_settings on any feature value: the menu is started and the two     *)
(* features of the local qube change one at a time.                        *)

SettingChars == {"1", "2", "-", "_", " ", "x"}

\* Any short string as the value of the initial-page feature.
AnyInitialPageValues == SeqsUpTo(SettingChars, MaxValueLen)

\* Values of the sort-running feature, among them what an administrator
\* would write to switch sorting off.
AnySortRunningValues ==
    {<<>>, <<"0">>, <<"1">>, <<"F", "a", "l", "s", "e">>}

AnyValuesOf(f) == IF f = INITIAL_PAGE_FEATURE THEN AnyInitialPageValues
                  ELSE AnySortRunningValues

AnyFeatureStores ==
    UNION {{st \in [fs -> AnyInitialPageValues \cup AnySortRunningValues] :
               \A f \in fs : st[f] \in AnyValuesOf(f)}
           : fs \in SUBSET FeatureNames}

InitSettings ==
    /\ pc = "app"
    /\ UtilIdle
    /\ icon_call = NoIconCall
    /\ AppConstructed
    /\ features \in AnyFeatureStores
    /\ main_run = MainRunning

\* The menu is started without options.
StartMenu ==
    /\ ~primary
    /\ \E options \in OptionDicts :
           DOMAIN options = {} /\ do_command_line(options)

NextSettings ==
    \/ StartMenu
    \/ /\ events = <<>>
       /\ \E f \in FeatureNames :
              \E v \in AnyValuesOf(f) : feature_set(LocalName, f, v)
    \/ /\ events = <<>>
       /\ \E f \in FeatureNames : feature_delete(LocalName, f)
    \/ update_settings

SpecSettings == InitSettings /\ [][NextSettings]_vars

-----------------------------------------------------------------------------
(* The event feed: the menu is started on a qube without menu features,    *)
(* then features of the local and of another qube are set and deleted      *)
(* while earlier events still wait for delivery.                           *)

InitEvents ==
    /\ pc = "app"
    /\ UtilIdle
    /\ icon_call = NoIconCall
    /\ AppConstructed
    /\ features = [f \in {} |-> <<>>]
    /\ main_run = MainRunning

NextEvents ==
    \/ StartMenu
    \/ /\ Len(events) < MaxPending
       /\ \E vm \in VMNames, f \in FeatureNames :
              \E v \in ValuesOf(f) : feature_set(vm, f, v)
    \/ /\ Len(events) < MaxPending
       /\ \E vm \in VMNames, f \in FeatureNames : feature_delete(vm, f)
    \/ update_settings

SpecEvents == InitEvents /\ [][NextEvents]_vars

-----------------------------------------------------------------------------
(* Properties of utils.text_search.                                        *)

IsPrefix(w, s) == \E n \in 0..Len(s) : SubSeq(s, 1, n) = w
IsSubstring(w, s) == \E a \in 1..(Len(s) + 1), b \in 0..Len(s) :
                         SubSeq(s, a, b) = w

\* The best rank any candidate gives the query word.
BestRank(w, ws) ==
    IF w = <<>> THEN RANK_NONE
    ELSE IF \E i \in 1..Len(ws) : IsPrefix(w, ws[i]) THEN RANK_PREFIX
    ELSE IF \E i \in 1..Len(ws) : IsSubstring(w, ws[i]) THEN RANK_SUBSTRING
    ELSE RANK_NONE

\* C1: text_search returns 0 for the empty query word; otherwise 1 when some
\* candidate starts with the query word, also when an earlier candidate only
\* contains it; otherwise 0.5 when some candidate contains it; otherwise 0.
C1_RankIsBestMatch ==
    pc = "ranked" => rank = BestRank(search_word, text_words)

-----------------------------------------------------------------------------
(* Properties of utils.parse_search.                                       *)

Separators == {" ", "-", "_"}

\* The maximal runs of characters of t that are no separators, as pairs of
\* their first and last position.
TokenRuns(t) ==
    {r \in (1..Len(t)) \X (1..Len(t)) :
        /\ r[1] <= r[2]
        /\ \A k \in r[1]..r[2] : t[k] \notin Separators
        /\ r[1] = 1 \/ t[r[1] - 1] \in Separators
        /\ r[2] = Len(t) \/ t[r[2] + 1] \in Separators}

\* C2: parse_search returns the lowercased pieces of the text between the
\* separators '-', '_' and ' ', without the empty ones, in their order of
\* occurrence in the text; the empty text gives the empty sequence.
C2_ParseSearchTokens ==
    pc = "parsed" =>
        /\ Len(search_words) = Cardinality(TokenRuns(search_text))
        /\ \A r \in TokenRuns(search_text) :
               LET k == Cardinality({q \in TokenRuns(search_text) :
                                        q[1] <= r[1]})
               IN  search_words[k] =
                       [i \in 1..(r[2] - r[1] + 1) |->
                           LowerChar(search_text[r[1] + i - 1])]
        /\ search_text = <<>> => search_words = <<>>

C2_Witness ==
    /\ pc = "parsed"
    /\ search_text = <<"A", "-", "b", "_">>
    /\ search_words = << <<"a">>, <<"b">> >>

\* C3 as claimed: every token of parse_search is non-empty and holds no
\* space, tab, newline, hyphen or underscore.
C3_TokensNoWhitespace ==
    pc = "parsed" =>
        \A k \in 1..Len(search_words) :
            /\ search_words[k] # <<>>
            /\ \A i \in 1..Len(search_words[k]) :
                   search_words[k][i] \notin {" ", "\t", "\n", "-", "_"}

\* C3, amended: every token of parse_search is non-empty and holds no space,
\* hyphen or underscore (a tab or a newline does not separate words and
\* stays in the token).
C3_TokensNoSeparator ==
    pc = "parsed" =>
        \A k \in 1..Len(search_words) :
            /\ search_words[k] # <<>>
            /\ \A i \in 1..Len(search_words[k]) :
                   search_words[k][i] \notin {" ", "-", "_"}

C3_Witness ==
    /\ pc = "parsed"
    /\ search_text = <<"b", "_", "A", "\t">>
    /\ search_words = << <<"b">>, <<"a", "\t">> >>

-----------------------------------------------------------------------------
(* Properties of the interval merge of utils.highlight_words.              *)

\* The character positions an interval list covers.
Covered(ivs) ==
    {p \in 0..MaxPos : \E i \in 1..Len(ivs) : ivs[i][1] <= p /\ p < ivs[i][2]}

\* The permutations of a sequence.
Orderings(s) ==
    {[i \in 1..Len(s) |-> s[f[i]]] :
        f \in {g \in [1..Len(s) -> 1..Len(s)] :
                  \A i, j \in 1..Len(s) : g[i] = g[j] => i = j}}

SetMin(S) == CHOOSE x \in S : \A y \in S : x <= y
SetMax(S) == CHOOSE x \in S : \A y \in S : x >= y

\* C4: the merged intervals are sorted by start and each ends before the
\* next starts, so that they neither overlap nor touch; no found interval
\* gives no result interval.
C4_MergedDisjoint ==
    /\ pc = "merged" =>
           \A i \in 1..(Len(result_intervals) - 1) :
               /\ result_intervals[i][1] < result_intervals[i + 1][1]
               /\ result_intervals[i][2] < result_intervals[i + 1][1]
    /\ (pc = "marked" /\ found_intervals = <<>>) => result_intervals = <<>>

C4_Witness ==
    /\ pc = "merged"
    /\ found_intervals = << <<0, 1>>, <<1, 2>>, <<3, 4>> >>
    /\ result_intervals = << <<0, 2>>, <<3, 4>> >>

\* C5: the merged intervals cover the positions the found intervals cover,
\* and each result interval is the union of the found intervals that overlap
\* or touch it.
C5_MergedCoverage ==
    pc = "merged" =>
        /\ Covered(result_intervals) = Covered(found_intervals)
        /\ \A k \in 1..Len(result_intervals) :
               LET r == result_intervals[k]
                   near == {i \in 1..Len(found_intervals) :
                               /\ found_intervals[i][1] <= r[2]
                               /\ r[1] <= found_intervals[i][2]}
               IN  /\ near # {}
                   /\ r[1] = SetMin({found_intervals[i][1] : i \in near})
                   /\ r[2] = SetMax({found_intervals[i][2] : i \in near})
                   /\ \A p \in r[1]..(r[2] - 1) :
                          \E i \in near : /\ found_intervals[i][1] <= p
                                          /\ p < found_intervals[i][2]

C5_Witness ==
    /\ pc = "merged"
    /\ found_intervals = << <<0, 3>>, <<1, 2>>, <<3, 4>> >>
    /\ result_intervals = << <<0, 4>> >>

\* C6: merging the merged intervals again gives the same sequence, and every
\* permutation of the found intervals merges to the same sequence.
C6_MergeIdempotentOrderFree ==
    pc = "merged" =>
        /\ merge_intervals(SortByStart(result_intervals)) = result_intervals
        /\ \A p \in Orderings(found_intervals) :
               merge_intervals(SortByStart(p)) = result_intervals

C6_Witness ==
    /\ pc = "merged"
    /\ found_intervals = << <<0, 2>>, <<0, 1>>, <<3, 4>> >>
    /\ result_intervals = << <<0, 2>>, <<3, 4>> >>

-----------------------------------------------------------------------------
(* Properties of the markup of utils.highlight_words.                      *)

\* The text from position from on with each interval between its
\* delimiters, built from the left.
RECURSIVE Delimited(_, _, _)
Delimited(t, ivs, from) ==
    IF ivs = <<>> THEN SubSeq(t, from + 1, Len(t))
    ELSE SubSeq(t, from + 1, ivs[1][1]) \o HlTag
             \o SubSeq(t, ivs[1][1] + 1, ivs[1][2]) \o CloseTag
             \o Delimited(t, Tail(ivs), ivs[1][2])

\* C7: in the final markup each delimiter pair encloses the characters
\* text[start:end] of the original text, for every merged interval, and the
\* markup without the delimiters is the original text.
C7_MarkupEnclosesIntervals ==
    pc = "marked" =>
        /\ markup = Delimited(text, result_intervals, 0)
        /\ SelectSeq(markup, LAMBDA c : c \in LabelChars) = text

C7_Witness ==
    /\ pc = "marked"
    /\ text = <<"A", "b", "b", "A">>
    /\ result_intervals = << <<0, 1>>, <<2, 4>> >>
    /\ markup = HlTag \o <<"A">> \o CloseTag \o <<"b">>
                    \o HlTag \o <<"b", "A">> \o CloseTag

-----------------------------------------------------------------------------
(* Properties of AppMenu.                                                  *)

\* C8: a command line with the page option N leaves the menu opened at page
\* N (initial_page = N and the notebook at page N), at the first start as at
\* every later invocation.
C8_PageOptionOpensPage ==
    [][\A options \in OptionDicts :
          (do_command_line(options) /\ "page" \in DOMAIN options) =>
              /\ initial_page' = options["page"]
              /\ current_page' = options["page"]]_vars

\* C9: once keep_visible is set and the main window is visible, no step
\* (activation, hide_menu, key press, focus-out or any other) hides the
\* window.
C9_KeepVisibleStaysVisible ==
    [][(keep_visible /\ visible) => visible']_vars

\* keep_visible is set, a later activation has acted (it alone sets
\* keep_above) and the window is visible.
C9_Witness ==
    /\ primary
    /\ keep_visible
    /\ keep_above
    /\ visible

SetupRuns(n) == [perform_setup |-> n, initialize_state |-> n,
                 listen_for_events |-> n]

\* The objects perform_setup and the first activation build.
SetupObjects ==
    <<main_window, main_notebook, desktop_file_manager, vm_manager,
      [n \in DOMAIN handlers |-> handlers[n].id], dispatcher_handlers, tasks>>

\* C10: perform_setup, initialize_state and the start of the listener task
\* run once, at the first activation; after it no step runs any of them or
\* replaces the window, the managers, the handlers or the task list.
C10_SetupOnce ==
    [][/\ ran = SetupRuns(IF primary THEN 1 ELSE 0)
       /\ ran' = SetupRuns(IF primary' THEN 1 ELSE 0)
       /\ primary => primary'
       /\ primary => SetupObjects' = SetupObjects]_vars

C10_Witness ==
    /\ primary
    /\ keep_above
    /\ ran = SetupRuns(1)
    /\ tasks = <<"listen_for_events">>
    /\ \A n \in PageNames : handlers[n].id = 1

\* C11: the first activation runs the setup and shows the main window
\* exactly when the background option was not given; a window left hidden
\* stays hidden until an activation, and an activation that finds the window
\* hidden makes it visible.
C11_BackgroundStart ==
    [][/\ \A options \in OptionDicts :
             do_command_line(options) =>
                 /\ ~primary =>
                        /\ primary'
                        /\ ran' = SetupRuns(1)
                        /\ visible' = ("background" \notin DOMAIN options)
                 /\ (primary /\ ~visible) => visible'
       /\ (~visible /\ visible') =>
              \E options \in OptionDicts : do_command_line(options)]_vars

\* The menu was started in the background (no later activation has acted:
\* keep_above is unset) and its window is hidden.
C11_Witness ==
    /\ primary
    /\ start_in_background
    /\ ran = SetupRuns(1)
    /\ ~keep_above
    /\ ~visible

C16_FocusOutRespectsOpenMenus ==
    [][focus_out =>
          IF OPEN_MENUS > 0
          THEN /\ visible' = visible
               /\ handlers' = handlers
          ELSE /\ handlers' = initialize_pages(handlers, {"search_page"})
               /\ visible' = (visible /\ keep_visible)]_vars

\* A right-click menu is open over the visible window, keep_visible is
\* unset and the search page holds a query: a focus-out must change nothing.
C16_Witness ==
    /\ primary
    /\ OPEN_MENUS > 0
    /\ visible
    /\ ~keep_visible
    /\ ~handlers["search_page"].initial

\* C19: hide_menu, whether a page handler calls it, the Escape key or a
\* focus-out with no right-click menu open, leaves the search page in its
\* initial state, and with keep_visible set leaves the window as it is.
C19_HideMenuResetsSearch ==
    [][(hide_menu \/ key_press("Escape")
           \/ (focus_out /\ OPEN_MENUS <= 0)) =>
          /\ handlers'["search_page"].initial
          /\ keep_visible => visible' = visible]_vars

\* keep_visible is set, the window is visible on the search page, where a
\* query was typed, and the search page is in its initial state again.
C19_Witness ==
    /\ primary
    /\ keep_visible
    /\ visible
    /\ current_page = SEARCH_PAGE_INDEX
    /\ initial_page # SEARCH_PAGE_INDEX
    /\ handlers["search_page"].initial

-----------------------------------------------------------------------------
(* Properties of AppMenu.load_settings.                                    *)

\* The value of the decimal digits among s[a..b], the last one counting
\* least.
RECURSIVE DecimalValue(_, _, _)
DecimalValue(s, a, b) ==
    IF b < a THEN 0
    ELSE IF s[b] = "_" THEN DecimalValue(s, a, b - 1)
    ELSE DigitValue(s[b]) + 10 * DecimalValue(s, a, b - 1)

\* s[a..b] is a run of digits in which single underscores may stand between
\* two digits.
IsDigitRun(s, a, b) ==
    /\ a <= b
    /\ s[a] \in DigitChars
    /\ s[b] \in DigitChars
    /\ \A i \in a..b : s[i] \in DigitChars \cup {"_"}
    /\ \A i \in a..(b - 1) : s[i] = "_" => s[i + 1] # "_"

\* The integers the string s denotes in Python's decimal notation: white
\* space, an optional sign, a run of digits, white space.  The set is empty
\* when s is no integer, and has one element otherwise.
Denoted(s) ==
    {IF s[a] = "-" THEN 0 - DecimalValue(s, a + 1, b)
     ELSE IF s[a] = "+" THEN DecimalValue(s, a + 1, b)
     ELSE DecimalValue(s, a, b) :
        <<a, b>> \in
            {<<a, b>> \in (1..Len(s)) \X (1..Len(s)) :
                /\ \A i \in 1..(a - 1) : s[i] \in WhiteChars
                /\ \A i \in (b + 1)..Len(s) : s[i] \in WhiteChars
                /\ IF s[a] \in {"+", "-"} THEN IsDigitRun(s, a + 1, b)
                   ELSE IsDigitRun(s, a, b)}}

\* load_settings runs in this step: at the first activation, or when the
\* event of a feature of the local qube is delivered.
LoadsSettings ==
    \/ ~primary /\ primary'
    \/ update_settings /\ Head(events).vm = LocalName

\* C12: after load_settings, initial_page is the integer the value of the
\* initial-page feature denotes, for every string value that denotes one,
\* and 1 for every other string value and when the feature is absent.
C12_InitialPageParsedOrDefault ==
    [][LoadsSettings =>
          LET given == INITIAL_PAGE_FEATURE \in DOMAIN features'
              denoted == IF given
                         THEN Denoted(features'[INITIAL_PAGE_FEATURE])
                         ELSE {}
          IN  /\ Cardinality(denoted) <= 1
              /\ denoted # {} => initial_page' \in denoted
              /\ denoted = {} => initial_page' = 1]_vars

\* The settings were loaded from a store whose initial-page value starts
\* like a number and is none: initial_page is the default.
C12_Witness ==
    /\ primary
    /\ events = <<>>
    /\ INITIAL_PAGE_FEATURE \in DOMAIN features
    /\ features[INITIAL_PAGE_FEATURE] = <<"2", "x">>
    /\ initial_page = 1

\* C20: after load_settings, sort_running is true exactly when the
\* sort-running feature is present with a value of at least one character,
\* whatever the characters are, and false when it is absent or empty.
C20_SortRunningIsNonEmpty ==
    [][LoadsSettings =>
          sort_running' =
              /\ SORT_RUNNING_FEATURE \in DOMAIN features'
              /\ Len(features'[SORT_RUNNING_FEATURE]) > 0]_vars

\* The settings were loaded from a store whose sort-running value is
\* "False": sorting is switched on.
C20_Witness ==
    /\ primary
    /\ events = <<>>
    /\ SORT_RUNNING_FEATURE \in DOMAIN features
    /\ features[SORT_RUNNING_FEATURE] = <<"F", "a", "l", "s", "e">>
    /\ sort_running

\* The settings a feature store stands for: the page its initial-page value
\* denotes, or 1, and whether its sort-running value has any character.
StoreInitialPage(feats) ==
    IF INITIAL_PAGE_FEATURE \in DOMAIN feats
       /\ Denoted(feats[INITIAL_PAGE_FEATURE]) # {}
    THEN CHOOSE n \in Denoted(feats[INITIAL_PAGE_FEATURE]) : TRUE
    ELSE 1

StoreSortRunning(feats) ==
    /\ SORT_RUNNING_FEATURE \in DOMAIN feats
    /\ Len(feats[SORT_RUNNING_FEATURE]) > 0

\* C17: once every event of the local qube has been delivered, in the order
\* the features changed, initial_page and sort_running are what the feature
\* store as it is now stands for, and every page handler holds that sort
\* order.
C17_LastWriteWins ==
    (primary /\ \A i \in 1..Len(events) : events[i].vm # LocalName) =>
        /\ initial_page = StoreInitialPage(features)
        /\ sort_running = StoreSortRunning(features)
        /\ \A n \in PageNames : handlers[n].sorting_order = sort_running

\* Both features of the local qube were set after the start (the store was
\* empty then), their events are delivered, and the settings follow.
C17_Witness ==
    /\ primary
    /\ events = <<>>
    /\ DOMAIN features = FeatureNames
    /\ features[INITIAL_PAGE_FEATURE] = <<"2">>
    /\ features[SORT_RUNNING_FEATURE] = <<"0">>
    /\ initial_page = 2
    /\ sort_running
    /\ \A n \in PageNames : handlers[n].sorting_order

\* C18: the delivery of an event of a qube other than the local one leaves
\* initial_page, sort_running and every page handler as they are.
C18_ForeignEventIgnored ==
    [][(update_settings /\ Head(events).vm # LocalName) =>
          /\ initial_page' = initial_page
          /\ sort_running' = sort_running
          /\ handlers' = handlers]_vars

\* The event of another qube is the next to be delivered while the store of
\* the local qube has changed since the settings were loaded: loading them
\* now would change initial_page.
C18_Witness ==
    /\ primary
    /\ Len(events) = 2
    /\ events[1].vm = OtherName
    /\ events[2].vm = LocalName
    /\ initial_page # StoreInitialPage(features)

-----------------------------------------------------------------------------
(* Properties of utils.load_icon.                                          *)

\* C13: load_icon returns the theme icon when the theme has an icon of that
\* name, otherwise the image of the file when the name is the path of one,
\* otherwise a blank image; it returns an image for every name and size.
C13_IconChain ==
    pc = "loaded" =>
        icon_call.result.kind =
            IF icon_call.in_theme THEN "theme"
            ELSE IF icon_call.is_file THEN "file"
            ELSE "blank"

-----------------------------------------------------------------------------
(* Properties of appmenu.main.                                             *)

\* C14: main exits with status 6 exactly when Gtk.init_check fails, and
\* then none of the admin client, the dispatcher and the application object
\* has been created.
C14_ExitCodeNoGui ==
    main_run.at = "exited" =>
        /\ main_run.exit = <<6>> <=> ~main_run.gtk_ok
        /\ main_run.exit = <<6>> => main_run.created = {}

\* The toolkit could not be initialised and main has exited.
C14_Witness ==
    /\ main_run.at = "exited"
    /\ ~main_run.gtk_ok
    /\ main_run.exit = <<6>>
    /\ main_run.created = {}

=============================================================================
